---------------------------- MODULE Spec2Model ----------------------------
(***************************************************************************)
(* A model of src/js/i18n.js: the I18n object of the GERARD landing page.  *)
(*                                                                         *)
(* Strings the code takes apart (the URL path, the browser locale, the     *)
(* language codes compared with them) are sequences of one-character       *)
(* strings.  Content strings are sequences of tokens, a token being a word *)
(* or a tag, so that textContent (literal) and innerHTML (parsed) differ.  *)
(*                                                                         *)
(* Scheduling: the browser's event loop.  The only suspension points are   *)
(* `await fetch(...)` and `await response.json()`; whatever follows the    *)
(* last of them up to the end of init()/switchLanguage() runs in           *)
(* microtasks of one task and is one atomic action here.                   *)
(*                                                                         *)
(* Environment assumptions: localStorage does not throw, the page has the  *)
(* #lang-switcher container with one control per supported language, and   *)
(* every element addressed by a [data-i18n] selector exists.               *)
(***************************************************************************)
EXTENDS Integers, Sequences, FiniteSets, TLC

VARIABLES
  pathname,     \* window.location.pathname
  search,       \* window.location.search, as a sequence of <<key, value>>
  navLanguage,  \* navigator.language
  storage,      \* localStorage['gerard-lang'] (NULL when absent)
  server,       \* the content document the server holds for each language
  currentLang,  \* I18n.currentLang
  content,      \* I18n.content (NoDoc when null)
  dom,          \* the bound DOM locations and the root lang attribute
  active,       \* the switcher controls that carry the class 'active'
  listening,    \* the click listener of setupLangSwitcher is registered
  calls,        \* the init()/switchLanguage() calls that started a load
  clicks,       \* number of clicks dispatched to switchLanguage so far
  lastClick,    \* the last dispatched click: its language, and whether it hit the guard
  lastSettled,  \* history: language of the retrieval that settled last
  lastWrite     \* history: language of the retrieval that succeeded last

vars == <<pathname, search, navLanguage, storage, server, currentLang, content,
          dom, active, listening, calls, clicks, lastClick, lastSettled, lastWrite>>

env == <<pathname, search, navLanguage, server>>

-----------------------------------------------------------------------------
(* Bounds *)

MaxPathLen == 4    \* longest pathname drawn for detectLanguage
MaxClicks == 2     \* clicks on the switcher in one run

-----------------------------------------------------------------------------
(* Values *)

NULL == <<"null">>

es == <<"e", "s">>
en == <<"e", "n">>
fr == <<"f", "r">>

supportedLangs == {es, en}

DefaultLang == es

Truthy(v) == v # NULL /\ v # <<>>

PathChars == {"/", "e", "n", "s"}

RECURSIVE SeqsOfLen(_, _)
SeqsOfLen(S, n) ==
  IF n = 0 THEN {<<>>}
  ELSE {<<c>> \o t : c \in S, t \in SeqsOfLen(S, n - 1)}

\* Pathnames: a browser's pathname always starts with "/".
Paths == UNION {{<<"/">> \o t : t \in SeqsOfLen(PathChars, n)} : n \in 0..(MaxPathLen - 1)}

Searches ==
  { <<>>,
    << <<"lang", es>> >>, << <<"lang", en>> >>, << <<"lang", fr>> >>,
    << <<"lang", <<>> >> >>,
    << <<"x", en>> >>,
    << <<"x", en>>, <<"lang", es>> >>,
    << <<"lang", en>>, <<"lang", es>> >> }

Locales ==
  { es, en, fr,
    <<"e", "n", "-", "U", "S">>, <<"e", "s", "-", "M", "X">>,
    <<"f", "r", "-", "F", "R">>, <<"E", "N">>, <<"e">> }

StoredValues == {NULL, <<>>, es, en, fr}


-----------------------------------------------------------------------------
(* detectLanguage *)

\* window.location.pathname.match(/^\/(en|es)\//): the captured group, or
\* NULL when the pattern does not match.
pathMatch(p) ==
  IF /\ Len(p) >= 4
     /\ p[1] = "/"
     /\ SubSeq(p, 2, 3) \in {en, es}
     /\ p[4] = "/"
  THEN SubSeq(p, 2, 3)
  ELSE NULL

\* URLSearchParams.get(name): the value of the first pair with that key.
RECURSIVE paramGet(_, _)
paramGet(q, name) ==
  IF q = <<>> THEN NULL
  ELSE IF Head(q)[1] = name THEN Head(q)[2]
  ELSE paramGet(Tail(q), name)

\* String.prototype.slice(0, 2)
slice02(str) == SubSeq(str, 1, IF Len(str) < 2 THEN Len(str) ELSE 2)

detectLanguageStoredFirst ==
  LET pm == pathMatch(pathname)
      langParam == paramGet(search, "lang")
      storedLang == storage
      browserLang == slice02(navLanguage)
  IN  IF pm # NULL THEN pm
      ELSE IF Truthy(storedLang) /\ storedLang \in supportedLangs THEN storedLang
      ELSE IF Truthy(langParam) /\ langParam \in supportedLangs THEN langParam
      ELSE IF browserLang \in supportedLangs THEN browserLang
      ELSE es

detectLanguage ==
  LET pm == pathMatch(pathname)
      langParam == paramGet(search, "lang")
      storedLang == storage
      browserLang == slice02(navLanguage)
  IN  IF pm # NULL THEN pm
      ELSE IF Truthy(langParam) /\ langParam \in supportedLangs THEN langParam
      ELSE IF Truthy(storedLang) /\ storedLang \in supportedLangs THEN storedLang
      ELSE IF browserLang \in supportedLangs THEN browserLang
      ELSE es

-----------------------------------------------------------------------------
(* Content documents *)

\* The keys of content.sections that render() reads, in the order of its passes.
SectionKeys ==
  {"benefits", "differential", "howItWorks", "engine", "featureSet",
   "testimonials", "beforeAfter", "useCases", "faq", "finalCTA"}

\* The binding passes of render(), in order.
Passes ==
  <<"meta", "nav", "hero", "benefits", "differential", "howItWorks", "engine",
    "featureSet", "testimonials", "beforeAfter", "useCases", "faq", "finalCTA",
    "footer">>

Word(lang) == IF lang = es THEN "hola" ELSE "hello"

\* A content string: plain, or carrying markup.
PlainText(lang) == <<Word(lang)>>
MarkupText(lang) == <<"<b>", Word(lang), "</b>">>

\* The documents a server may hold for a language: complete (every string
\* plain, or every string carrying markup), or lacking one section.
DocsOf(lang) ==
  {[lang |-> lang, sections |-> SectionKeys, txt |-> t] :
      t \in {PlainText(lang), MarkupText(lang)}}
  \cup
  {[lang |-> lang, sections |-> SectionKeys \ {k}, txt |-> PlainText(lang)] :
      k \in SectionKeys}

NoDoc == [lang |-> NULL, sections |-> {}, txt |-> <<>>]

-----------------------------------------------------------------------------
(* The DOM *)

TextNode(data) == [type |-> "text", data |-> data]
Element(tag, children) == [type |-> "element", tag |-> tag, children |-> children]

OpenTags == {"<b>", "<li>"}
CloseTags == {"</b>", "</li>"}

\* The HTML fragment parser behind innerHTML, on token sequences: the nodes
\* parsed from position i on, up to the end or to an unmatched closing tag.
RECURSIVE parseFrom(_, _)
parseFrom(s, i) ==
  IF i > Len(s) \/ s[i] \in CloseTags THEN [nodes |-> <<>>, next |-> i]
  ELSE IF s[i] \in OpenTags
  THEN LET inner == parseFrom(s, i + 1)
           rest == parseFrom(s, inner.next + 1)
       IN  [nodes |-> <<Element(s[i], inner.nodes)>> \o rest.nodes, next |-> rest.next]
  ELSE LET rest == parseFrom(s, i + 1)
       IN  [nodes |-> <<TextNode(<<s[i]>>)>> \o rest.nodes, next |-> rest.next]

\* el.textContent = text: one text node holding the string as it is.
textContent(text) == <<TextNode(text)>>

\* el.innerHTML = html: the children the parser makes of the string.
innerHTML(html) == parseFrom(html, 1).nodes

\* Array.prototype.join('') of the mapped strings
RECURSIVE join(_)
join(strs) == IF strs = <<>> THEN <<>> ELSE Head(strs) \o join(Tail(strs))

\* items.map(item => `<li>${item}</li>`).join('')
listMarkup(items) == join([i \in 1..Len(items) |-> <<"<li>">> \o items[i] \o <<"</li>">>])

\* The DOM locations of the model beyond one per pass.
DomKeys ==
  {Passes[i] : i \in 1..Len(Passes)} \cup
  {"rootLang", "engine.statement", "testimonials.quote",
   "beforeAfter.before.items", "beforeAfter.after.items"}

TemplateNodes == <<TextNode(<<"tpl">>)>>

TemplateLang == <<"t", "p", "l">>

\* The page as served: its static content, before any render.
TemplateDom == [k \in DomKeys |-> IF k = "rootLang" THEN TemplateLang ELSE TemplateNodes]

setText(d, key, text) == [d EXCEPT ![key] = textContent(text)]

setHTML(d, key, html) == [d EXCEPT ![key] = innerHTML(html)]

\* The strings of a document's list fields (beforeAfter.before.items, .after.items)
Items(c) == <<c.txt, c.txt>>

\* One pass of render() over document c: the setText, setHTML and innerHTML
\* assignments of that pass.
bindPass(p, c, d) ==
  LET d1 == setText(d, p, c.txt)
  IN  CASE p = "meta" -> [d1 EXCEPT !["rootLang"] = c.lang]
        [] p = "engine" -> setHTML(d1, "engine.statement", c.txt)
        [] p = "testimonials" ->
             setText(d1, "testimonials.quote", <<"\"">> \o c.txt \o <<"\"">>)
        [] p = "beforeAfter" ->
             [d1 EXCEPT !["beforeAfter.before.items"] = innerHTML(listMarkup(Items(c))),
                        !["beforeAfter.after.items"] = innerHTML(listMarkup(Items(c)))]
        [] OTHER -> d1

\* The passes that test for their section before reading it.
guardsSection(p) == p = "engine"

\* The passes of render() from the k-th on: a pass whose section is absent
\* returns early when it tests for it, and otherwise throws a TypeError on
\* the first property it reads, which ends render().
RECURSIVE runPasses(_, _, _)
runPasses(c, d, k) ==
  IF k > Len(Passes) THEN [dom |-> d, threw |-> FALSE]
  ELSE LET p == Passes[k]
       IN  IF p \in SectionKeys /\ p \notin c.sections
           THEN IF guardsSection(p) THEN runPasses(c, d, k + 1)
                ELSE [dom |-> d, threw |-> TRUE]
           ELSE runPasses(c, bindPass(p, c, d), k + 1)

render(c, d) ==
  IF c = NoDoc THEN [dom |-> d, threw |-> FALSE]
  ELSE runPasses(c, d, 1)

\* The controls of #lang-switcher, by their data-lang attribute.
Buttons == {es, en}

\* btn.classList.toggle('active', btn.dataset.lang === this.currentLang)
updateLangSwitcher(cur) == {b \in Buttons : b = cur}

-----------------------------------------------------------------------------
(* loadContent, switchLanguage, init *)

Pending(c) == c.phase \in {"fetch", "json"}

Finished(c) == c.phase \in {"done", "threw"}

AnyPending == \E i \in 1..Len(calls) : Pending(calls[i])

\* A call of init() or switchLanguage(lang) at its `await this.loadContent(lang)`:
\* the fetch of line 58 is issued.
NewCall(kind, lang) ==
  [kind |-> kind, lang |-> lang, req |-> lang, phase |-> "fetch",
   retrievals |-> <<lang>>, outcomes |-> <<>>, alone |-> ~AnyPending]

\* this.content = await response.json()
contentOnSuccessLatestOnly(i, doc) == IF i = Len(calls) THEN doc ELSE content

contentOnSuccess(i, doc) == doc

\* localStorage.setItem('gerard-lang', lang)
storedOnSuccessCurrent(lang) == currentLang

storedOnSuccess(lang) == lang

\* the catch block leaves this.content as it is
contentOnFailureCleared(c) == NoDoc

contentOnFailure(c) == c

\* if (lang !== 'es') await this.loadContent('es')
fallbackAlways(lang) == TRUE

fallbackNeeded(lang) == lang # es

\* if (lang === this.currentLang) return
switchGuardStored(lang) == lang = storage

switchGuard(lang) == lang = currentLang

\* What follows `await this.loadContent(...)` in init() and switchLanguage():
\* render(), then setupLangSwitcher() or updateLangSwitcher(), unless render()
\* threw.  c is the call's record, cont and stor what loadContent left.
Resume(i, c, cont, stor) ==
  LET r == render(cont, dom)
  IN  /\ content' = cont
      /\ storage' = stor
      /\ dom' = r.dom
      /\ IF r.threw
         THEN /\ calls' = [calls EXCEPT ![i] = [c EXCEPT !.phase = "threw"]]
              /\ UNCHANGED <<active, listening>>
         ELSE /\ calls' = [calls EXCEPT ![i] = [c EXCEPT !.phase = "done"]]
              /\ active' = updateLangSwitcher(currentLang)
              /\ listening' = (listening \/ c.kind = "init")

\* The catch block of loadContent for call i, whose retrieval ended as `outcome`.
Catch(i, outcome) ==
  LET c == [calls[i] EXCEPT !.outcomes = Append(@, outcome)]
  IN  /\ lastSettled' = calls[i].req
      /\ UNCHANGED lastWrite
      /\ IF fallbackNeeded(calls[i].req)
         THEN /\ calls' = [calls EXCEPT ![i] =
                             [c EXCEPT !.req = es, !.phase = "fetch",
                                       !.retrievals = Append(@, es)]]
              /\ UNCHANGED <<content, storage, dom, active, listening>>
         ELSE Resume(i, c, contentOnFailure(content), storage)

\* DOMContentLoaded: I18n.init() up to its await.
Start ==
  /\ calls = <<>>
  /\ currentLang' = detectLanguage
  /\ calls' = <<NewCall("init", detectLanguage)>>
  /\ UNCHANGED <<env, storage, content, dom, active, listening, clicks, lastClick,
                 lastSettled, lastWrite>>

\* A click on the switcher control b: switchLanguage(b.dataset.lang) up to
\* its await.
Click(b) ==
  /\ listening
  /\ clicks < MaxClicks
  /\ clicks' = clicks + 1
  /\ lastClick' = [lang |-> b, noop |-> (b = currentLang)]
  /\ IF switchGuard(b)
     THEN UNCHANGED <<currentLang, calls>>
     ELSE /\ currentLang' = b
          /\ calls' = Append([i \in 1..Len(calls) |-> [calls[i] EXCEPT !.alone = @ /\ ~Pending(calls[i])]],
                             NewCall("switch", b))
  /\ UNCHANGED <<env, storage, content, dom, active, listening, lastSettled, lastWrite>>

\* The fetch of call i settles: a response with ok set, a response with a
\* non-success status, or a rejection (transport error).
FetchSettles(i, r) ==
  /\ calls[i].phase = "fetch"
  /\ IF r = "ok"
     THEN /\ calls' = [calls EXCEPT ![i].phase = "json"]
          /\ UNCHANGED <<content, storage, dom, active, listening, lastSettled, lastWrite>>
     ELSE Catch(i, "failed")
  /\ UNCHANGED <<env, currentLang, clicks, lastClick>>

\* response.json() of call i settles: the parsed document, or a parse failure.
JsonSettles(i, parsed) ==
  /\ calls[i].phase = "json"
  /\ IF parsed
     THEN /\ lastSettled' = calls[i].req
          /\ lastWrite' = calls[i].req
          /\ Resume(i, [calls[i] EXCEPT !.outcomes = Append(@, "ok")],
                    contentOnSuccess(i, server[calls[i].req]),
                    storedOnSuccess(calls[i].req))
     ELSE Catch(i, "failed")
  /\ UNCHANGED <<env, currentLang, clicks, lastClick>>

FetchOutcomes == {"ok", "status", "error"}

Next ==
  \/ Start
  \/ \E b \in Buttons : Click(b)
  \/ \E i \in 1..Len(calls), r \in FetchOutcomes : FetchSettles(i, r)
  \/ \E i \in 1..Len(calls), parsed \in BOOLEAN : JsonSettles(i, parsed)

CompleteDoc(lang) == [lang |-> lang, sections |-> SectionKeys, txt |-> PlainText(lang)]

\* The servers of the runs: each language's document is one of DocsOf.
Servers ==
  {f \in [Buttons -> DocsOf(es) \cup DocsOf(en)] : \A l \in Buttons : f[l] \in DocsOf(l)}

InitProgram ==
  /\ currentLang = es
  /\ content = NoDoc
  /\ dom = TemplateDom
  /\ listening = FALSE
  /\ calls = <<>>
  /\ clicks = 0
  /\ lastClick = [lang |-> NULL, noop |-> FALSE]
  /\ lastSettled = NULL
  /\ lastWrite = NULL

Init ==
  /\ pathname \in {<<"/">>, <<"/", "e", "n", "/">>}
  /\ search = <<>>
  /\ navLanguage = es
  /\ storage = NULL
  /\ server \in Servers
  /\ active \in SUBSET Buttons
  /\ InitProgram

Spec == Init /\ [][Next]_vars

\* Every combination of the inputs of detectLanguage, for init()'s call of it.
InitDetect ==
  /\ pathname \in Paths
  /\ search \in Searches
  /\ navLanguage \in Locales
  /\ storage \in StoredValues
  /\ server = [l \in Buttons |-> CompleteDoc(l)]
  /\ active = {es}
  /\ InitProgram

NextDetect == Start

SpecDetect == InitDetect /\ [][NextDetect]_vars

-----------------------------------------------------------------------------
(* Properties of detectLanguage, under SpecDetect *)

\* The first path segment of a pathname: what lies between its leading "/"
\* and the next "/" or the end.
RECURSIVE UpToSlash(_)
UpToSlash(p) ==
  IF p = <<>> \/ Head(p) = "/" THEN <<>>
  ELSE <<Head(p)>> \o UpToSlash(Tail(p))

FirstSegment(p) == UpToSlash(Tail(p))

\* The first path segment, when a "/" closes it: the path has the prefix
\* /<segment>/.
ClosedFirstSegment(p) ==
  IF Len(p) >= Len(FirstSegment(p)) + 2 THEN FirstSegment(p) ELSE NULL

\* The first of the signals that is a supported code, and 'es' when none is.
RECURSIVE FirstSupported(_)
FirstSupported(signals) ==
  IF signals = <<>> THEN DefaultLang
  ELSE IF Head(signals) \in supportedLangs THEN Head(signals)
  ELSE FirstSupported(Tail(signals))

Detected == calls[1].lang

\* C1, as stated: the language init() detects is the first supported one of
\* path segment, lang parameter, stored preference and the first two
\* characters of the browser locale, and 'es' when none is supported.
C1_AsStated ==
  calls # <<>> =>
    Detected = FirstSupported(<<FirstSegment(pathname), paramGet(search, "lang"),
                                storage, slice02(navLanguage)>>)

\* C1, amended: the path signal is the first segment only when a "/" closes
\* it (the path starts with /en/ or /es/).  With that, the detected language
\* is the first supported signal in the order path, query, stored, browser,
\* else 'es'; it is always a supported code; and a supported path prefix wins
\* over every other signal.
C1_Priority ==
  calls # <<>> =>
    /\ Detected = FirstSupported(<<ClosedFirstSegment(pathname), paramGet(search, "lang"),
                                   storage, slice02(navLanguage)>>)
    /\ Detected \in supportedLangs
    /\ currentLang = Detected
    /\ ClosedFirstSegment(pathname) \in supportedLangs => Detected = ClosedFirstSegment(pathname)

\* A supported path prefix has won over a conflicting query parameter, stored
\* preference and browser locale.
C1_Witness ==
  /\ calls # <<>>
  /\ ClosedFirstSegment(pathname) = en
  /\ paramGet(search, "lang") = es
  /\ storage = es
  /\ slice02(navLanguage) = es
  /\ currentLang = en

-----------------------------------------------------------------------------
(* Properties of the loads, under Spec *)

Last(q) == q[Len(q)]

Quiescent == calls # <<>> /\ \A i \in 1..Len(calls) : Finished(calls[i])

\* In this step a retrieval of call i settled.
Settles(i) == Len(calls'[i].outcomes) = Len(calls[i].outcomes) + 1

\* In this step the load of call i ended and what follows its await ran.
Resumes(i) == Pending(calls[i]) /\ Finished(calls'[i])

\* C2: a call loadContent(L) retrieves L first; it issues a second retrieval
\* exactly when the first failed and L is not 'es', and that one is for
\* 'es'; it never issues a third; and it has ended once every retrieval it
\* issued has settled.
C2_AtMostOneFallback ==
  \A i \in 1..Len(calls) :
    LET c == calls[i]
    IN  /\ Len(c.retrievals) \in {1, 2}
        /\ c.retrievals[1] = c.lang
        /\ Len(c.outcomes) <= Len(c.retrievals)
        /\ (Len(c.outcomes) >= 1 /\ c.outcomes[1] = "failed" /\ c.lang # es)
             => (Len(c.retrievals) = 2 /\ c.retrievals[2] = es)
        /\ Len(c.retrievals) = 2
             => (c.lang # es /\ Len(c.outcomes) >= 1 /\ c.outcomes[1] = "failed")
        /\ Pending(c) <=> Len(c.outcomes) < Len(c.retrievals)

\* Both cases of C2 have happened: a failed load of 'en' that fell back to
\* 'es', and a failed load of 'es' that ended after its one retrieval.
C2_Witness ==
  /\ \E i \in 1..Len(calls) :
       calls[i].retrievals = <<en, es>> /\ Finished(calls[i])
  /\ \E i \in 1..Len(calls) :
       calls[i].lang = es /\ calls[i].outcomes = <<"failed">> /\ Finished(calls[i])

\* C3: a retrieval of L that succeeds sets the stored preference to L and
\* replaces the held document by L's document; a retrieval that fails
\* changes neither.
C3_SuccessStores ==
  [][\A i \in 1..Len(calls) :
       Settles(i) =>
         IF Last(calls'[i].outcomes) = "ok"
         THEN storage' = calls[i].req /\ content' = server[calls[i].req]
         ELSE storage' = storage /\ content' = content]_vars

\* A fallback retrieval of 'es' succeeded after the retrieval of 'en' had
\* failed, and the preference and the document are those of 'es'.
C3_Witness ==
  \E i \in 1..Len(calls) :
    /\ calls[i].lang = en
    /\ calls[i].outcomes = <<"failed", "ok">>
    /\ storage = es
    /\ content = server[es]

\* C4: a click whose language is the current language changes nothing: no
\* retrieval is issued, and current language, document, preference, DOM and
\* active indicators stay as they are.
C4_SameLanguageNoop ==
  [][(clicks' = clicks + 1 /\ lastClick'.lang = currentLang)
       => UNCHANGED <<currentLang, content, storage, dom, active, calls>>]_vars

\* The last click asked for the current language while a switch to that
\* language was still loading.
C4_Witness ==
  /\ lastClick.noop
  /\ \E i \in 1..Len(calls) :
       calls[i].kind = "switch" /\ Pending(calls[i]) /\ calls[i].lang = lastClick.lang

\* C5: the latest switch, overlapped by no other call, whose retrieval of L
\* succeeded, has ended with L current, the root lang attribute that of L's
\* document, and exactly L's control active.
C5_SwitchCompletes ==
  calls # <<>> =>
    LET c == Last(calls)
    IN  (c.kind = "switch" /\ c.alone /\ Finished(c) /\ c.outcomes = <<"ok">>)
          => /\ currentLang = c.lang
             /\ dom["rootLang"] = server[c.lang].lang
             /\ active = {c.lang}

\* C6, as stated: when every retrieval of a load has failed, the held
\* content is unset and the render that follows changes no DOM location.
C6_AsStated ==
  [][\A i \in 1..Len(calls) :
       (Resumes(i) /\ Last(calls'[i].outcomes) = "failed")
         => (content' = NoDoc /\ dom' = dom)]_vars

\* C6, amended: when every retrieval of a load has failed, the held content
\* is left as it was (unset only if it was unset), and the render that
\* follows changes no DOM location; and while the content is unset the DOM is
\* the page as served.
C6_FailedLoadKeepsPage ==
  /\ [][\A i \in 1..Len(calls) :
          (Resumes(i) /\ Last(calls'[i].outcomes) = "failed")
            => (content' = content /\ dom' = dom)]_vars
  /\ [](content = NoDoc => dom = TemplateDom)

\* A switch whose retrieval and fallback both failed has ended, over a
\* document an earlier load had set.
C6_Witness ==
  \E i \in 1..Len(calls) :
    /\ calls[i].kind = "switch"
    /\ calls[i].outcomes = <<"failed", "failed">>
    /\ Finished(calls[i])
    /\ content # NoDoc

AllDocs == DocsOf(es) \cup DocsOf(en)

ListKeys == {"beforeAfter.before.items", "beforeAfter.after.items"}

\* C7: every bound location other than engine.statement shows its string as
\* literal text (the list containers: one li per entry, holding the entry as
\* literal text); engine.statement shows its string parsed as markup.
C7_PlainText ==
  \A k \in DomKeys \ {"rootLang"} :
    \/ dom[k] = TemplateNodes
    \/ \E d \in AllDocs :
         CASE k = "engine.statement" -> dom[k] = innerHTML(d.txt)
           [] k \in ListKeys ->
                dom[k] = <<Element("<li>", <<TextNode(d.txt)>>),
                           Element("<li>", <<TextNode(d.txt)>>)>>
           [] k = "testimonials.quote" ->
                dom[k] = <<TextNode(<<"\"">> \o d.txt \o <<"\"">>)>>
           [] OTHER -> dom[k] = <<TextNode(d.txt)>>

\* C8: a render over a document lacking a section raises no error, leaves
\* that section's DOM untouched, runs every other pass, and, in a switch, is
\* followed by the update of the active indicator.
C8_AbsentSectionTolerated ==
  [][\A i \in 1..Len(calls) :
       (Resumes(i) /\ content' # NoDoc)
         => /\ calls'[i].phase = "done"
            /\ \A k \in SectionKeys :
                 IF k \in content'.sections
                 THEN dom'[k] = <<TextNode(content'.txt)>>
                 ELSE dom'[k] = dom[k]
            /\ dom'["footer"] = <<TextNode(content'.txt)>>
            /\ calls'[i].kind = "switch" => active' = {currentLang'}]_vars

\* Every call has ended, and the latest switch overlapped an earlier one.
OverlapDone == Quiescent /\ ~Last(calls).alone

\* C9, as stated: after overlapping switches, document, rendered page and
\* preference are those of the retrieval that settled last.
C9_AsStated ==
  OverlapDone =>
    /\ content = server[lastSettled]
    /\ storage = lastSettled
    /\ dom["rootLang"] = server[lastSettled].lang

\* C9, amended: after overlapping switches, document, rendered page and
\* preference are those of the retrieval that succeeded last, whichever switch
\* issued it; a retrieval that fails writes nothing.
C9_LastWriteWins ==
  OverlapDone =>
    IF lastWrite = NULL
    THEN content = NoDoc /\ storage = NULL /\ dom = TemplateDom
    ELSE /\ content = server[lastWrite]
         /\ storage = lastWrite
         /\ dom["rootLang"] = server[lastWrite].lang
         /\ dom["meta"] = <<TextNode(server[lastWrite].txt)>>

\* Two overlapping switches both succeeded, and the one requested first
\* settled last: its language, not the last requested one, is what is held.
C9_Witness ==
  /\ OverlapDone
  /\ Len(calls) >= 3
  /\ calls[Len(calls) - 1].outcomes = <<"ok">>
  /\ Last(calls).outcomes = <<"ok">>
  /\ lastWrite = calls[Len(calls) - 1].lang
  /\ lastWrite # Last(calls).lang
  /\ content = server[lastWrite]

\* C10: when no load is in flight and content is set, the held document, the
\* root lang attribute, the stored preference and the active control all name
\* the current language.  Stated for the runs in which every call returned
\* normally, so that a render that threw is not what decides it.
C10_LanguagesAgree ==
  (/\ calls # <<>>
   /\ \A i \in 1..Len(calls) : calls[i].phase = "done"
   /\ content # NoDoc) =>
    /\ content.lang = currentLang
    /\ dom["rootLang"] = currentLang
    /\ storage = currentLang
    /\ active = {currentLang}

=============================================================================
